---- MODULE Spec2Model ----
(***************************************************************************)
(* eBird notable-sightings scraper (src/scraper.py).                       *)
(*                                                                         *)
(* Two specifications share this module:                                   *)
(*   Spec        one run of main(): environment, configuration, the        *)
(*               per-region fetch loop, and the two output files;          *)
(*   SpecFormat  format_observation followed by generate_html on one raw   *)
(*               observation drawn from a bounded set of records.          *)
(*                                                                         *)
(* Python values are tagged records, dictionaries are functions whose      *)
(* DOMAIN is the set of keys present, and text that is assembled by        *)
(* interpolation (the HTML page) is the sequence of its literal and        *)
(* interpolated pieces, in order.                                          *)
(***************************************************************************)
EXTENDS Integers, Sequences, FiniteSets, TLC

VARIABLES
    \* ---- environment of one run of main() ----
    api_key_env,      \* os.environ.get("EBIRD_API_KEY"): None or a str
    config_file,      \* config.json on disk: missing, invalid JSON, or JSON
    data_json,        \* docs/data.json on disk
    index_html,       \* docs/index.html on disk
    \* ---- locals of main() ----
    pc,               \* position in main()
    config,           \* the value load_config() returned
    i,                \* index of the region the for loop is at
    all_observations, \* the accumulated RegionResult list
    last_updated,     \* timestamp string
    exc,              \* the uncaught exception that ended the run, or "none"
    exit_status,      \* process exit status, -1 while running
    trace,            \* I/O performed so far, in order
    stdout,           \* lines printed so far
    \* ---- format_observation / generate_html on one record ----
    f_pc, f_obs, f_out, f_html

vars == <<api_key_env, config_file, data_json, index_html, pc, config, i,
          all_observations, last_updated, exc, exit_status, trace, stdout,
          f_pc, f_obs, f_out, f_html>>

mainVars == <<api_key_env, config_file, data_json, index_html, pc, config, i,
              all_observations, last_updated, exc, exit_status, trace, stdout>>

fmtVars == <<f_pc, f_obs, f_out, f_html>>

(***************************************************************************)
(* Bounds of the model.                                                    *)
(***************************************************************************)
MaxRegions == 2   \* longest configured regions list
MaxObs == 2       \* longest response body (records per region)

(***************************************************************************)
(* Python values.                                                          *)
(***************************************************************************)
None == [t |-> "none"]
PyStr(s) == [t |-> "str", v |-> s]
PyInt(n) == [t |-> "int", v |-> n]
PyBool(b) == [t |-> "bool", v |-> b]
PyFloat(r) == [t |-> "float", v |-> r]   \* r: the number's decimal text

\* bool(v): the truth value Python gives v in a condition
Truthy(v) ==
    CASE v.t = "none" -> FALSE
      [] v.t = "str"  -> v.v /= ""
      [] v.t = "int"  -> v.v /= 0
      [] v.t = "float" -> v.v \notin {"0.0", "-0.0"}
      [] v.t = "bool" -> v.v

Digit(d) ==
    CASE d = 0 -> "0" [] d = 1 -> "1" [] d = 2 -> "2" [] d = 3 -> "3"
      [] d = 4 -> "4" [] d = 5 -> "5" [] d = 6 -> "6" [] d = 7 -> "7"
      [] d = 8 -> "8" [] d = 9 -> "9"

RECURSIVE NatToStr(_)
NatToStr(n) == IF n < 10 THEN Digit(n) ELSE NatToStr(n \div 10) \o Digit(n % 10)

IntToStr(n) == IF n < 0 THEN "-" \o NatToStr(-n) ELSE NatToStr(n)

\* f"{v}": the text an f-string interpolates for v
PyFormat(v) ==
    CASE v.t = "none" -> "None"
      [] v.t = "str"  -> v.v
      [] v.t = "int"  -> IntToStr(v.v)
      [] v.t = "float" -> v.v
      [] v.t = "bool" -> IF v.v THEN "True" ELSE "False"

\* d.get(key, default) on a dictionary
DictGet(d, key, default) == IF key \in DOMAIN d THEN d[key] ELSE default

\* a JSON object (dict), as opposed to a scalar value
IsDict(o) == "t" \notin DOMAIN o

(***************************************************************************)
(* format_observation (src/scraper.py:41-57).                              *)
(***************************************************************************)
RawKeys == {"comName", "sciName", "howMany", "locName", "obsDt", "lat", "lng",
            "subId", "speciesCode", "locId", "userDisplayName", "obsValid",
            "obsReviewed"}

OutKeys == {"species", "scientific_name", "count", "location", "date", "lat",
            "lng", "checklist_url", "species_url", "location_id", "observer",
            "is_valid", "is_reviewed"}

\* a plausible slip: tests the presence of subId instead of its truth value
checklist_url_presence(obs) ==
    IF "subId" \in DOMAIN obs
    THEN PyStr("https://ebird.org/checklist/" \o PyFormat(DictGet(obs, "subId", PyStr(""))))
    ELSE None

\* line 51
checklist_url(obs) ==
    IF Truthy(DictGet(obs, "subId", None))
    THEN PyStr("https://ebird.org/checklist/" \o PyFormat(DictGet(obs, "subId", PyStr(""))))
    ELSE None

\* line 52
species_url(obs) ==
    IF Truthy(DictGet(obs, "speciesCode", None))
    THEN PyStr("https://ebird.org/species/" \o PyFormat(DictGet(obs, "speciesCode", PyStr(""))))
    ELSE None

\* a plausible slip: the location default reused for the species name
format_observation_default(obs) ==
    [species         |-> DictGet(obs, "comName", PyStr("Unknown location")),
     scientific_name |-> DictGet(obs, "sciName", PyStr("")),
     count           |-> DictGet(obs, "howMany", PyStr("X")),
     location        |-> DictGet(obs, "locName", PyStr("Unknown location")),
     date            |-> DictGet(obs, "obsDt", PyStr("")),
     lat             |-> DictGet(obs, "lat", None),
     lng             |-> DictGet(obs, "lng", None),
     checklist_url   |-> checklist_url(obs),
     species_url     |-> species_url(obs),
     location_id     |-> DictGet(obs, "locId", PyStr("")),
     observer        |-> DictGet(obs, "userDisplayName", PyStr("")),
     is_valid        |-> DictGet(obs, "obsValid", PyBool(TRUE)),
     is_reviewed     |-> DictGet(obs, "obsReviewed", PyBool(FALSE))]

format_observation(obs) ==
    [species         |-> DictGet(obs, "comName", PyStr("Unknown")),
     scientific_name |-> DictGet(obs, "sciName", PyStr("")),
     count           |-> DictGet(obs, "howMany", PyStr("X")),
     location        |-> DictGet(obs, "locName", PyStr("Unknown location")),
     date            |-> DictGet(obs, "obsDt", PyStr("")),
     lat             |-> DictGet(obs, "lat", None),
     lng             |-> DictGet(obs, "lng", None),
     checklist_url   |-> checklist_url(obs),
     species_url     |-> species_url(obs),
     location_id     |-> DictGet(obs, "locId", PyStr("")),
     observer        |-> DictGet(obs, "userDisplayName", PyStr("")),
     is_valid        |-> DictGet(obs, "obsValid", PyBool(TRUE)),
     is_reviewed     |-> DictGet(obs, "obsReviewed", PyBool(FALSE))]

(***************************************************************************)
(* generate_html (src/scraper.py:60-281).  The page is the sequence of     *)
(* the template's literal pieces and the interpolated values, in order;    *)
(* an interpolated value is one piece, inserted verbatim (no escaping).    *)
(***************************************************************************)
PLACEHOLDER == "<p>No notable sightings in the past week.</p>"
OBS_OPEN == "<div class=\"observation\">"
SECTION_OPEN == "<section class=\"region\">"
COUNT_OPEN == "<span class=\"count\">"

\* a plausible slip: the sentinel is never translated
count_str_literal(obs) == PyFormat(obs.count)

\* line 74
count_str(obs) == IF obs.count /= PyStr("X") THEN PyFormat(obs.count) ELSE "present"

\* line 75
checklist_link(obs) ==
    IF Truthy(obs.checklist_url)
    THEN <<"<a href=\"", PyFormat(obs.checklist_url), "\" target=\"_blank\">",
           "View checklist", "</a>">>
    ELSE <<"">>

\* line 76
species_link(obs) ==
    IF Truthy(obs.species_url)
    THEN <<"<a href=\"", PyFormat(obs.species_url), "\" target=\"_blank\">",
           PyFormat(obs.species), "</a>">>
    ELSE <<PyFormat(obs.species)>>

\* lines 78-91: what one observation adds to obs_items
obs_item(obs) ==
    <<OBS_OPEN, "<div class=\"species-name\">">> \o species_link(obs) \o
    <<"</div>",
      "<div class=\"species-scientific\">", PyFormat(obs.scientific_name), "</div>",
      "<div class=\"details\">",
      COUNT_OPEN, count_str(obs), "</span>", " at ",
      "<span class=\"location\">", PyFormat(obs.location), "</span>",
      "</div>",
      "<div class=\"meta\">",
      "<span class=\"date\">", PyFormat(obs.date), "</span>">> \o
    checklist_link(obs) \o
    <<"</div>", "</div>">>

\* lines 72-73, 92: the inner for loop
RECURSIVE obs_items(_)
obs_items(observations) ==
    IF observations = <<>> THEN <<>>
    ELSE obs_item(Head(observations)) \o obs_items(Tail(observations))

\* lines 69-92
obs_html(observations) ==
    IF observations = <<>> THEN <<PLACEHOLDER>> ELSE obs_items(observations)

\* lines 94-101: what one region adds to regions_html
region_section(region_data) ==
    <<SECTION_OPEN, "<h2>", region_data.name, "</h2>",
      "<div class=\"observations\">">> \o
    obs_html(region_data.observations) \o
    <<"</div>", "</section>">>

\* lines 64-65: the outer for loop
RECURSIVE regions_html(_)
regions_html(results) ==
    IF results = <<>> THEN <<>>
    ELSE region_section(Head(results)) \o regions_html(Tail(results))

\* lines 103-281: the page around regions_html (the style sheet is one piece)
generate_html(results, cfg, updated) ==
    <<"<!DOCTYPE html><html lang=\"en\"><head>...</head><body><div class=\"container\">",
      "<header><h1>Notable Bird Sightings</h1><p class=\"last-updated\">Last updated: ",
      updated, "</p></header>", "<main>">> \o
    regions_html(results) \o
    <<"</main>", "<footer>...</footer></div></body></html>">>

(***************************************************************************)
(* main (src/scraper.py:284-341) and what it calls.                        *)
(***************************************************************************)
DefaultDaysBack == 7
DefaultMaxResults == 100

BoundedSeq(S, n) == UNION {[1..m -> S] : m \in 0..n}

RegionPool ==
    <<[code |-> "US-NY", name |-> "New York"],
      [code |-> "US-CA", name |-> "California"],
      [code |-> "CA-ON", name |-> "Ontario"],
      [code |-> "MX-ROO", name |-> "Quintana Roo"]>>

\* the optional keys of the descriptor: any subset present
ConfigParams ==
    {[k \in D |-> IF k = "days_back" THEN PyInt(3) ELSE PyInt(50)] :
        D \in SUBSET {"days_back", "max_results"}}

\* config.json contents: a regions list and the optional keys
Configs ==
    {[k \in {"regions"} \cup DOMAIN p |->
         IF k = "regions" THEN SubSeq(RegionPool, 1, n) ELSE p[k]] :
        n \in 0..MaxRegions, p \in ConfigParams}

\* records the remote API returns in the runs of Spec
ObsFull ==
    [comName |-> PyStr("Snowy Owl"), sciName |-> PyStr("Bubo scandiacus"),
     howMany |-> PyInt(3), locName |-> PyStr("Central Park"),
     obsDt |-> PyStr("2026-01-05 08:30"), lat |-> PyFloat("40.78"),
     lng |-> PyFloat("-73.96"), subId |-> PyStr("S123"),
     speciesCode |-> PyStr("snoowl1"), locId |-> PyStr("L191106"),
     userDisplayName |-> PyStr("A. Birder"), obsValid |-> PyBool(TRUE),
     obsReviewed |-> PyBool(FALSE)]

\* a sparse record whose free-text location name is a piece of markup
ObsMarkup ==
    [comName |-> PyStr("Gyrfalcon"), locName |-> PyStr(OBS_OPEN)]

Bodies == BoundedSeq({ObsFull, ObsMarkup}, MaxObs)

\* a JSON array whose element is not an object
BadShapeBodies == {<<PyStr("unexpected")>>}

HTTPErrorStatuses == {404, 500}

Timestamps == {"2026-01-05 09:00 UTC"}

\* line 28
request_url(region_code) ==
    "https://api.ebird.org/v2/data/obs/" \o region_code \o "/recent/notable"

\* a plausible slip: the other parameter's default
days_back_arg_swapped(cfg) == DictGet(cfg, "days_back", PyInt(DefaultMaxResults))

\* line 301
days_back_arg(cfg) == DictGet(cfg, "days_back", PyInt(DefaultDaysBack))

\* line 302
max_results_arg(cfg) == DictGet(cfg, "max_results", PyInt(DefaultMaxResults))

\* str(e) of the HTTPError that response.raise_for_status() raises (line 37)
http_error_message(status, url) ==
    IntToStr(status) \o
    (IF status < 500 THEN " Client Error" ELSE " Server Error") \o
    " for url: " \o url

\* a plausible slip: only an unset key is refused, an empty one passes
api_key_unset(key) == key = None

\* line 287: not api_key
api_key_missing(key) == ~Truthy(key)

\* a plausible slip: the except clause names an exception that is never raised
except_catches_nothing(exception) == FALSE

\* line 311: except requests.exceptions.HTTPError
except_catches(exception) == exception = "HTTPError"

\* line 304
RECURSIVE format_all(_)
format_all(raw_obs) ==
    IF raw_obs = <<>> THEN <<>>
    ELSE <<format_observation(Head(raw_obs))>> \o format_all(Tail(raw_obs))

\* a plausible slip: the last record of the response is dropped
on_success_short(results, region, raw_obs) ==
    Append(results,
           [code |-> region.code, name |-> region.name,
            observations |-> format_all(SubSeq(raw_obs, 1, Len(raw_obs) - 1))])

\* lines 304-309
on_success(results, region, raw_obs) ==
    Append(results,
           [code |-> region.code, name |-> region.name,
            observations |-> format_all(raw_obs)])

\* a plausible slip: a failed region is logged but not recorded
on_http_error_skip(results, region, message) == results

\* lines 313-318
on_http_error(results, region, message) ==
    Append(results,
           [code |-> region.code, name |-> region.name,
            observations |-> <<>>, error |-> message])

\* a plausible slip: the loop does not move on
loop_retry(n) == n

\* line 295: the for loop moves to the next region
loop_advance(n) == n + 1

FormatIdle ==
    /\ f_pc = "idle"
    /\ f_obs = None
    /\ f_out = None
    /\ f_html = <<>>

Init ==
    /\ api_key_env \in {None, PyStr(""), PyStr("k3y")}
    /\ config_file \in {[kind |-> "missing"], [kind |-> "invalid"]}
                       \cup {[kind |-> "json", value |-> c] : c \in Configs}
    /\ data_json = [state |-> "previous"]
    /\ index_html = [state |-> "previous"]
    /\ pc = "start"
    /\ config = None
    /\ i = 0
    /\ all_observations = <<>>
    /\ last_updated = ""
    /\ exc = "none"
    /\ exit_status = -1
    /\ trace = <<>>
    /\ stdout = <<>>
    /\ FormatIdle

\* an exception nothing catches: traceback, exit status 1
Raise(exception) ==
    /\ pc' = "exit"
    /\ exc' = exception
    /\ exit_status' = 1

\* lines 286-288
GetApiKey ==
    /\ pc = "start"
    /\ IF api_key_missing(api_key_env)
       THEN Raise("ValueError")
       ELSE pc' = "load" /\ UNCHANGED <<exc, exit_status>>
    /\ UNCHANGED <<api_key_env, config_file, data_json, index_html, config, i,
                   all_observations, last_updated, trace, stdout>>
    /\ UNCHANGED fmtVars

\* lines 291, 14-18, 294
LoadConfig ==
    /\ pc = "load"
    /\ trace' = Append(trace, [op |-> "open", path |-> "config.json",
                               ok |-> config_file.kind /= "missing"])
    /\ CASE config_file.kind = "missing" ->
              Raise("FileNotFoundError") /\ UNCHANGED <<config, i>>
         [] config_file.kind = "invalid" ->
              Raise("JSONDecodeError") /\ UNCHANGED <<config, i>>
         [] config_file.kind = "json" ->
              /\ config' = config_file.value
              /\ i' = 1
              /\ pc' = "loop"
              /\ UNCHANGED <<exc, exit_status>>
    /\ UNCHANGED <<api_key_env, config_file, data_json, index_html,
                   all_observations, last_updated, stdout>>
    /\ UNCHANGED fmtVars

Region == config["regions"][i]

\* lines 295-303, 28-36: the loop takes the next region and issues its GET
FetchRequest ==
    /\ pc = "loop"
    /\ i <= Len(config["regions"])
    /\ stdout' = Append(stdout, "Fetching notable observations for " \o Region.name
                                \o " (" \o Region.code \o ")...")
    /\ trace' = Append(trace,
           [op |-> "GET", url |-> request_url(Region.code),
            token |-> api_key_env,
            back |-> days_back_arg(config),
            maxResults |-> max_results_arg(config),
            detail |-> "full"])
    /\ pc' = "await"
    /\ UNCHANGED <<api_key_env, config_file, data_json, index_html, config, i,
                   all_observations, last_updated, exc, exit_status>>
    /\ UNCHANGED fmtVars

\* lines 36-38, 304-310: a 2xx response whose body is an array of records
ResponseOk ==
    /\ pc = "await"
    /\ \E body \in Bodies :
        /\ trace' = Append(trace, [op |-> "response", kind |-> "ok", body |-> body])
        /\ all_observations' = on_success(all_observations, Region, body)
        /\ stdout' = Append(stdout, "  Found " \o IntToStr(Len(format_all(body)))
                                    \o " notable sightings")
    /\ i' = loop_advance(i)
    /\ pc' = "loop"
    /\ UNCHANGED <<api_key_env, config_file, data_json, index_html, config,
                   last_updated, exc, exit_status>>
    /\ UNCHANGED fmtVars

\* an exception raised inside the try block (lines 297-318)
TryRaises(exception, message) ==
    IF except_catches(exception)
    THEN /\ stdout' = Append(stdout, "  Error fetching " \o Region.code \o ": " \o message)
         /\ all_observations' = on_http_error(all_observations, Region, message)
         /\ i' = loop_advance(i)
         /\ pc' = "loop"
         /\ UNCHANGED <<exc, exit_status>>
    ELSE /\ Raise(exception)
         /\ UNCHANGED <<stdout, all_observations, i>>

\* line 37: a non-2xx response; raise_for_status raises HTTPError
ResponseHTTPError ==
    /\ pc = "await"
    /\ \E status \in HTTPErrorStatuses :
        /\ trace' = Append(trace, [op |-> "response", kind |-> "http_error",
                                    status |-> status])
        /\ TryRaises("HTTPError", http_error_message(status, request_url(Region.code)))
    /\ UNCHANGED <<api_key_env, config_file, data_json, index_html, config,
                   last_updated>>
    /\ UNCHANGED fmtVars

\* line 36: requests.get raises ConnectionError, no response arrives
ConnectionFails ==
    /\ pc = "await"
    /\ trace' = Append(trace, [op |-> "response", kind |-> "connection_error"])
    /\ TryRaises("ConnectionError", "connection failed")
    /\ UNCHANGED <<api_key_env, config_file, data_json, index_html, config,
                   last_updated>>
    /\ UNCHANGED fmtVars

\* line 38: a 2xx response whose body is not JSON; response.json() raises
ResponseInvalidJSON ==
    /\ pc = "await"
    /\ trace' = Append(trace, [op |-> "response", kind |-> "invalid_json"])
    /\ TryRaises("JSONDecodeError", "Expecting value")
    /\ UNCHANGED <<api_key_env, config_file, data_json, index_html, config,
                   last_updated>>
    /\ UNCHANGED fmtVars

\* line 304: a 2xx response with an element that has no .get; format raises
ResponseBadShape ==
    /\ pc = "await"
    /\ \E body \in BadShapeBodies :
        /\ \E n \in 1..Len(body) : ~IsDict(body[n])
        /\ trace' = Append(trace, [op |-> "response", kind |-> "bad_shape",
                                    body |-> body])
    /\ TryRaises("AttributeError", "'str' object has no attribute 'get'")
    /\ UNCHANGED <<api_key_env, config_file, data_json, index_html, config,
                   last_updated>>
    /\ UNCHANGED fmtVars

\* line 321: the loop is over; the timestamp is taken
Timestamp ==
    /\ pc = "loop"
    /\ i > Len(config["regions"])
    /\ last_updated' \in Timestamps
    /\ pc' = "mkdir"
    /\ UNCHANGED <<api_key_env, config_file, data_json, index_html, config, i,
                   all_observations, exc, exit_status, trace, stdout>>
    /\ UNCHANGED fmtVars

\* lines 324-325
MakeOutputDir ==
    /\ pc = "mkdir"
    /\ trace' = Append(trace, [op |-> "mkdir", path |-> "docs", ok |-> TRUE])
    /\ pc' = "write_json"
    /\ UNCHANGED <<api_key_env, config_file, data_json, index_html, config, i,
                   all_observations, last_updated, exc, exit_status, stdout>>
    /\ UNCHANGED fmtVars

\* line 325: mkdir raises (docs is a file, or the directory is read-only)
MakeOutputDirFails ==
    /\ pc = "mkdir"
    /\ trace' = Append(trace, [op |-> "mkdir", path |-> "docs", ok |-> FALSE])
    /\ Raise("OSError")
    /\ UNCHANGED <<api_key_env, config_file, data_json, index_html, config, i,
                   all_observations, last_updated, stdout>>
    /\ UNCHANGED fmtVars

\* lines 328-332
json_output ==
    [last_updated |-> last_updated, config |-> config, regions |-> all_observations]

\* lines 333-335
WriteJson ==
    /\ pc = "write_json"
    /\ data_json' = [state |-> "written", content |-> json_output]
    /\ trace' = Append(trace, [op |-> "write", path |-> "docs/data.json", ok |-> TRUE])
    /\ stdout' = Append(stdout, "Saved data to docs/data.json")
    /\ pc' = "write_html"
    /\ UNCHANGED <<api_key_env, config_file, index_html, config, i,
                   all_observations, last_updated, exc, exit_status>>
    /\ UNCHANGED fmtVars

\* lines 333-334: open raises (file untouched) or the write fails part-way
WriteJsonFails ==
    /\ pc = "write_json"
    /\ data_json' \in {data_json, [state |-> "truncated"]}
    /\ trace' = Append(trace, [op |-> "write", path |-> "docs/data.json", ok |-> FALSE])
    /\ Raise("OSError")
    /\ UNCHANGED <<api_key_env, config_file, index_html, config, i,
                   all_observations, last_updated, stdout>>
    /\ UNCHANGED fmtVars

\* lines 338-341, then main returns and the process exits 0
WriteHtml ==
    /\ pc = "write_html"
    /\ index_html' = [state |-> "written",
                      content |-> generate_html(all_observations, config, last_updated)]
    /\ trace' = Append(trace, [op |-> "write", path |-> "docs/index.html", ok |-> TRUE])
    /\ stdout' = Append(stdout, "Saved HTML to docs/index.html")
    /\ pc' = "exit"
    /\ exit_status' = 0
    /\ UNCHANGED <<api_key_env, config_file, data_json, config, i,
                   all_observations, last_updated, exc>>
    /\ UNCHANGED fmtVars

\* lines 339-340: open raises (file untouched) or the write fails part-way
WriteHtmlFails ==
    /\ pc = "write_html"
    /\ index_html' \in {index_html, [state |-> "truncated"]}
    /\ trace' = Append(trace, [op |-> "write", path |-> "docs/index.html", ok |-> FALSE])
    /\ Raise("OSError")
    /\ UNCHANGED <<api_key_env, config_file, data_json, config, i,
                   all_observations, last_updated, stdout>>
    /\ UNCHANGED fmtVars

Next ==
    \/ GetApiKey
    \/ LoadConfig
    \/ FetchRequest
    \/ ResponseOk
    \/ ResponseHTTPError
    \/ ConnectionFails
    \/ ResponseInvalidJSON
    \/ ResponseBadShape
    \/ Timestamp
    \/ MakeOutputDir
    \/ MakeOutputDirFails
    \/ WriteJson
    \/ WriteJsonFails
    \/ WriteHtml
    \/ WriteHtmlFails

Spec == Init /\ [][Next]_vars

(***************************************************************************)
(* Reading a rendered page.                                                *)
(***************************************************************************)
\* positions of the pieces of page that equal piece
Positions(page, piece) == {n \in 1..Len(page) : page[n] = piece}

\* the text inside the first count span of page
CountText(page) ==
    LET n == CHOOSE m \in Positions(page, COUNT_OPEN) :
                 \A o \in Positions(page, COUNT_OPEN) : m <= o
    IN page[n + 1]

(***************************************************************************)
(* Reading the state of a run.                                             *)
(***************************************************************************)
IsRequest(e) == e.op = "GET"
IsResponse(e) == e.op = "response"
IsNetwork(e) == e.op \in {"GET", "response"}
IsFileFailure(e) == e.op \in {"mkdir", "write"} /\ ~e.ok

Requests == SelectSeq(trace, IsRequest)
Responses == SelectSeq(trace, IsResponse)
Network == SelectSeq(trace, IsNetwork)

ConfigLoaded == config /= None

Regions == IF ConfigLoaded THEN config["regions"] ELSE <<>>

\* the for loop has run to its end (the timestamp is taken right after it)
LoopFinished == last_updated /= ""

\* every fetch so far returned records or failed with an HTTP error
FetchesOkOrHTTPError ==
    \A n \in 1..Len(Responses) : Responses[n].kind \in {"ok", "http_error"}

HasError(result) == "error" \in DOMAIN result

(***************************************************************************)
(* C1: all_observations always carries the codes and names of a prefix of  *)
(* the configured regions, in order, and once the loop is over (the write  *)
(* phase) it has one entry per configured region, whichever fetches        *)
(* failed with an HTTP error.                                              *)
(***************************************************************************)
C1_ResultOrder ==
    /\ Len(all_observations) <= Len(Regions)
    /\ \A n \in 1..Len(all_observations) :
           /\ all_observations[n].code = Regions[n].code
           /\ all_observations[n].name = Regions[n].name
    /\ pc \in {"loop", "await"} => Len(all_observations) = i - 1
    /\ LoopFinished => Len(all_observations) = Len(Regions)

\* the write phase is reached with the first of two regions failed
C1_Witness ==
    /\ pc = "write_json"
    /\ Len(Regions) = 2
    /\ Len(all_observations) = 2
    /\ HasError(all_observations[1])
    /\ ~HasError(all_observations[2])

(***************************************************************************)
(* C2: a RegionResult has an error field exactly when its fetch failed     *)
(* with an HTTP error; the error is then a non-empty string and the        *)
(* observations are empty; otherwise the observations are the formatted    *)
(* records of the response body, one per record, in order.                 *)
(***************************************************************************)
C2_ErrorField ==
    \A n \in 1..Len(all_observations) :
        LET result == all_observations[n]
            response == Responses[n]
        IN /\ HasError(result) <=> response.kind = "http_error"
           /\ HasError(result) =>
                  /\ result.error /= ""
                  /\ Len(result.error) > 0
                  /\ result.observations = <<>>
           /\ ~HasError(result) =>
                  /\ response.kind = "ok"
                  /\ DOMAIN result = {"code", "name", "observations"}
                  /\ Len(result.observations) = Len(response.body)
                  /\ \A m \in 1..Len(response.body) :
                         result.observations[m] = format_observation(response.body[m])

\* one region failed and another returned two different records
C2_Witness ==
    /\ Len(all_observations) = 2
    /\ HasError(all_observations[1])
    /\ all_observations[1].observations = <<>>
    /\ ~HasError(all_observations[2])
    /\ Len(all_observations[2].observations) = 2
    /\ all_observations[2].observations[1] /= all_observations[2].observations[2]

(***************************************************************************)
(* C3: requests are issued one per configured region, in configuration     *)
(* order, each answered before the next is issued, never twice for one     *)
(* region; when every fetch returned records or failed with an HTTP error  *)
(* the loop ends with exactly one request per region.                      *)
(***************************************************************************)
C3_OneRequestPerRegion ==
    /\ Len(Requests) <= Len(Regions)
    /\ \A n \in 1..Len(Requests) : Requests[n].url = request_url(Regions[n].code)
    /\ \A n \in 1..Len(Network) :
           Network[n].op = IF n % 2 = 1 THEN "GET" ELSE "response"
    /\ pc = "loop" /\ FetchesOkOrHTTPError => Len(Requests) = i - 1
    /\ pc = "await" => Len(Requests) = i /\ Len(Responses) = i - 1
    /\ LoopFinished =>
           /\ FetchesOkOrHTTPError
           /\ Len(Requests) = Len(Regions)
           /\ Len(Responses) = Len(Regions)

\* the first region failed with an HTTP error and the second was requested
C3_Witness ==
    /\ LoopFinished
    /\ Len(Requests) = 2
    /\ Responses[1].kind = "http_error"
    /\ Requests[2].url = request_url("US-CA")

(***************************************************************************)
(* C4: with the API key set, the configuration loaded and every fetch      *)
(* either returning records or failing with an HTTP error, the run ends    *)
(* with exit status 0 and both files written.                              *)
(***************************************************************************)
RunEnded == pc = "exit"

BothWritten == data_json.state = "written" /\ index_html.state = "written"

NoFileFailure == \A n \in 1..Len(trace) : ~IsFileFailure(trace[n])

\* C4 as stated
C4_Original ==
    (RunEnded /\ Truthy(api_key_env) /\ ConfigLoaded /\ FetchesOkOrHTTPError)
        => (exit_status = 0 /\ BothWritten)

\* C4 amended: ... and creating the output directory and writing the two
\* files raise no error; before the end such a run can always take a step
C4_ExitZero ==
    /\ (RunEnded /\ Truthy(api_key_env) /\ ConfigLoaded /\ FetchesOkOrHTTPError
            /\ NoFileFailure)
           => /\ exit_status = 0
              /\ exc = "none"
              /\ BothWritten
              /\ Len(Responses) = Len(Regions)
    /\ (~RunEnded /\ Truthy(api_key_env) /\ ConfigLoaded /\ FetchesOkOrHTTPError)
           => \/ ENABLED FetchRequest
              \/ ENABLED ResponseOk
              \/ ENABLED Timestamp
              \/ ENABLED MakeOutputDir
              \/ ENABLED WriteJson
              \/ ENABLED WriteHtml

\* a run of two regions that both failed with an HTTP error ended with status 0
C4_Witness ==
    /\ RunEnded
    /\ exit_status = 0
    /\ BothWritten
    /\ Len(Responses) = 2
    /\ \A n \in 1..2 : Responses[n].kind = "http_error"

(***************************************************************************)
(* C5: the Configuration load_config returns, and so the config written    *)
(* to data.json, has days_back = 7 and max_results = 100 when the          *)
(* descriptor omits them, the values passed to the fetcher.                *)
(***************************************************************************)
Descriptor == config_file.value

HoldsDefaults(cfg) ==
    /\ "days_back" \notin DOMAIN Descriptor =>
           "days_back" \in DOMAIN cfg /\ cfg["days_back"] = PyInt(7)
    /\ "max_results" \notin DOMAIN Descriptor =>
           "max_results" \in DOMAIN cfg /\ cfg["max_results"] = PyInt(100)

\* C5 as stated
C5_Original ==
    /\ ConfigLoaded => HoldsDefaults(config)
    /\ data_json.state = "written" => HoldsDefaults(data_json.content.config)

\* C5 amended: load_config returns the descriptor as parsed, adding no key;
\* an omitted days_back (max_results) is replaced by 7 (100) only in the
\* arguments passed to the fetcher, and the config written to data.json is
\* the descriptor as parsed, without the omitted keys
C5_Defaults ==
    /\ ConfigLoaded => config = Descriptor
    /\ \A n \in 1..Len(Requests) :
           /\ Requests[n].back =
                  IF "days_back" \in DOMAIN Descriptor
                  THEN Descriptor["days_back"] ELSE PyInt(7)
           /\ Requests[n].maxResults =
                  IF "max_results" \in DOMAIN Descriptor
                  THEN Descriptor["max_results"] ELSE PyInt(100)
    /\ data_json.state = "written" =>
           /\ data_json.content.config = Descriptor
           /\ DOMAIN data_json.content.config = DOMAIN Descriptor

\* a descriptor without the optional keys: a request was sent with the
\* defaults and data.json was written without them
C5_Witness ==
    /\ data_json.state = "written"
    /\ DOMAIN data_json.content.config = {"regions"}
    /\ Len(Requests) > 0
    /\ Requests[1].back = PyInt(7)
    /\ Requests[1].maxResults = PyInt(100)

(***************************************************************************)
(* C9: the page has one region section per RegionResult, in order; the     *)
(* section of a region without observations holds the placeholder and no   *)
(* observation element, the section of a region with n > 0 observations    *)
(* holds exactly n observation elements, in order, and no placeholder.     *)
(***************************************************************************)
\* the positions, in increasing order, of the pieces of page equal to piece
RECURSIVE Ordered(_)
Ordered(S) ==
    IF S = {} THEN <<>>
    ELSE LET least == CHOOSE a \in S : \A b \in S : a <= b
         IN <<least>> \o Ordered(S \ {least})

SectionStarts(page) == Ordered(Positions(page, SECTION_OPEN))

\* the pieces of the n-th region section of page
Section(page, n) ==
    LET starts == SectionStarts(page)
        last == IF n < Len(starts) THEN starts[n + 1] - 1
                ELSE CHOOSE m \in Positions(page, "</main>") : TRUE
    IN SubSeq(page, starts[n], last)

\* the species text of the m-th observation element of a section
ElementSpecies(section, m) ==
    LET at == Ordered(Positions(section, OBS_OPEN))[m]
    IN IF section[at + 2] = "<a href=\"" THEN section[at + 5] ELSE section[at + 2]

\* C9: one section per RegionResult, in order; placeholder and no element
\* for zero observations, exactly n elements in order and no placeholder for n
C9_Sections ==
    index_html.state = "written" =>
        LET page == index_html.content
        IN /\ Len(SectionStarts(page)) = Len(all_observations)
           /\ \A n \in 1..Len(all_observations) :
                  LET section == Section(page, n)
                      observations == all_observations[n].observations
                  IN /\ section[3] = all_observations[n].name
                     /\ observations = <<>> =>
                            /\ Cardinality(Positions(section, PLACEHOLDER)) = 1
                            /\ Positions(section, OBS_OPEN) = {}
                     /\ observations /= <<>> =>
                            /\ Cardinality(Positions(section, OBS_OPEN)) = Len(observations)
                            /\ Positions(section, PLACEHOLDER) = {}
                            /\ \A m \in 1..Len(observations) :
                                   ElementSpecies(section, m) = observations[m].species.v

(***************************************************************************)
(* C10: no output file is touched before every region is processed, and    *)
(* data.json is written before index.html; a fatal condition before the    *)
(* write phase (key unset or empty, configuration missing or malformed, a  *)
(* non-HTTP exception in a fetch or format) ends the run with a non-zero   *)
(* status, with no further request and both files as they were; with the   *)
(* key unset nothing is read and nothing is requested.                     *)
(***************************************************************************)
Untouched == data_json.state = "previous" /\ index_html.state = "previous"

FatalBeforeWrite ==
    exc \in {"ValueError", "FileNotFoundError", "JSONDecodeError",
             "ConnectionError", "AttributeError"}

\* C10: files untouched until the loop is over, data.json first; every
\* fatal condition before the write phase ends the run at once, non-zero
C10_NoEarlyWrite ==
    /\ ~Untouched =>
           /\ LoopFinished
           /\ Len(all_observations) = Len(Regions)
           /\ Len(Responses) = Len(Regions)
    /\ index_html.state /= "previous" => data_json.state = "written"
    \* each fatal condition ends the run at once
    /\ (pc /= "start" /\ ~(api_key_env /= None /\ api_key_env /= PyStr("")))
           => RunEnded /\ exc = "ValueError" /\ trace = <<>> /\ ~ConfigLoaded
    /\ (pc \notin {"start", "load"} /\ Truthy(api_key_env) /\ config_file.kind = "missing")
           => RunEnded /\ exc = "FileNotFoundError" /\ Requests = <<>>
    /\ (pc \notin {"start", "load"} /\ Truthy(api_key_env) /\ config_file.kind = "invalid")
           => RunEnded /\ exc = "JSONDecodeError" /\ Requests = <<>>
    /\ ~FetchesOkOrHTTPError
           => /\ RunEnded
              /\ exc \in {"ConnectionError", "JSONDecodeError", "AttributeError"}
              /\ Responses[Len(Responses)].kind \notin {"ok", "http_error"}
              /\ Len(Requests) = Len(Responses)
    \* and a run so ended has status non-zero, leaves the files, does nothing more
    /\ (RunEnded /\ FatalBeforeWrite)
           => /\ exit_status /= 0
              /\ Untouched
              /\ ~ENABLED FetchRequest
              /\ ~ENABLED WriteJson
              /\ ~ENABLED WriteHtml

\* a connection failure on the second region ended the run
C10_Witness ==
    /\ RunEnded
    /\ exc = "ConnectionError"
    /\ Len(Regions) = 2
    /\ Len(Requests) = 2
    /\ Responses[1].kind = "http_error"
    /\ exit_status = 1
    /\ Untouched

(***************************************************************************)
(* SpecFormat: one raw observation through format_observation and          *)
(* generate_html.  A raw observation is any record over RawKeys with any   *)
(* subset of its fields absent; a present field holds one of the values    *)
(* below (howMany: a number or a string; the identifiers: a string that    *)
(* may be empty, and for subId also JSON null, which holds no text).       *)
(***************************************************************************)
Absent == [t |-> "absent"]

RawChoices ==
    [comName         : {Absent, PyStr("Snowy Owl")},
     sciName         : {Absent, PyStr("Bubo scandiacus")},
     howMany         : {Absent, PyInt(3), PyInt(12), PyStr("X")},
     locName         : {Absent, PyStr("Central Park")},
     obsDt           : {Absent, PyStr("2026-01-05 08:30")},
     lat             : {Absent, PyFloat("40.78")},
     lng             : {Absent, PyFloat("-73.96")},
     subId           : {Absent, None, PyStr(""), PyStr("S123")},
     speciesCode     : {Absent, PyStr(""), PyStr("snoowl1")},
     locId           : {Absent, PyStr("L191106")},
     userDisplayName : {Absent, PyStr("A. Birder")},
     obsValid        : {Absent, PyBool(FALSE)},
     obsReviewed     : {Absent, PyBool(TRUE)}]

\* the dictionary that holds exactly the fields a choice makes present
ToDict(c) == [k \in {key \in DOMAIN c : c[key] /= Absent} |-> c[k]]

RawObservations == {ToDict(c) : c \in RawChoices}

MainIdle ==
    /\ api_key_env = None
    /\ config_file = [kind |-> "missing"]
    /\ data_json = [state |-> "previous"]
    /\ index_html = [state |-> "previous"]
    /\ pc = "idle"
    /\ config = None
    /\ i = 0
    /\ all_observations = <<>>
    /\ last_updated = ""
    /\ exc = "none"
    /\ exit_status = -1
    /\ trace = <<>>
    /\ stdout = <<>>

InitFormat ==
    /\ MainIdle
    /\ f_pc = "raw"
    /\ f_obs \in RawObservations
    /\ f_out = None
    /\ f_html = <<>>

\* formatted = format_observation(obs)
Format ==
    /\ f_pc = "raw"
    /\ f_out' = format_observation(f_obs)
    /\ f_pc' = "formatted"
    /\ UNCHANGED <<f_obs, f_html>>
    /\ UNCHANGED mainVars

\* generate_html on a single region that holds the one formatted observation
Render ==
    /\ f_pc = "formatted"
    /\ f_html' = generate_html(
           <<[code |-> "US-NY", name |-> "New York", observations |-> <<f_out>>]>>,
           [regions |-> <<[code |-> "US-NY", name |-> "New York"]>>],
           "2026-01-05 09:00 UTC")
    /\ f_pc' = "rendered"
    /\ UNCHANGED <<f_obs, f_out>>
    /\ UNCHANGED mainVars

NextFormat == Format \/ Render

SpecFormat == InitFormat /\ [][NextFormat]_vars

Formatted == f_pc \in {"formatted", "rendered"}

Present(key) == key \in DOMAIN f_obs

(***************************************************************************)
(* C6: checklist_url is non-null iff subId is present and non-empty, and   *)
(* species_url is non-null iff speciesCode is present and non-empty; a     *)
(* non-null URL is exactly the fixed prefix followed by the identifier.    *)
(***************************************************************************)
C6_UrlDerivation ==
    Formatted =>
        /\ (f_out.checklist_url /= None)
               <=> (Present("subId") /\ f_obs["subId"] \notin {None, PyStr("")})
        /\ (f_out.species_url /= None)
               <=> (Present("speciesCode") /\ f_obs["speciesCode"] /= PyStr(""))
        /\ f_out.checklist_url /= None =>
               f_out.checklist_url = PyStr("https://ebird.org/checklist/" \o f_obs["subId"].v)
        /\ f_out.species_url /= None =>
               f_out.species_url = PyStr("https://ebird.org/species/" \o f_obs["speciesCode"].v)

\* a record with a real subId and an empty speciesCode has been formatted
C6_Witness ==
    /\ f_pc = "formatted"
    /\ Present("subId") /\ f_obs["subId"] = PyStr("S123")
    /\ Present("speciesCode") /\ f_obs["speciesCode"] = PyStr("")
    /\ f_out.checklist_url = PyStr("https://ebird.org/checklist/S123")
    /\ f_out.species_url = None

(***************************************************************************)
(* C7: format_observation returns, for every record and every subset of    *)
(* absent fields, a mapping with exactly the 13 output keys; an absent     *)
(* source field takes its documented default and a present one is copied.  *)
(***************************************************************************)
\* output key, source key, documented default
Copied ==
    {<<"species", "comName", PyStr("Unknown")>>,
     <<"location", "locName", PyStr("Unknown location")>>,
     <<"count", "howMany", PyStr("X")>>,
     <<"is_valid", "obsValid", PyBool(TRUE)>>,
     <<"is_reviewed", "obsReviewed", PyBool(FALSE)>>,
     <<"scientific_name", "sciName", PyStr("")>>,
     <<"date", "obsDt", PyStr("")>>,
     <<"lat", "lat", None>>,
     <<"lng", "lng", None>>,
     <<"location_id", "locId", PyStr("")>>,
     <<"observer", "userDisplayName", PyStr("")>>}

\* C7: exactly the 13 keys; each copied field or its documented default
C7_FormatTotal ==
    Formatted =>
        /\ DOMAIN f_out = OutKeys
        /\ Cardinality(DOMAIN f_out) = 13
        /\ \A m \in Copied :
               f_out[m[1]] = IF Present(m[2]) THEN f_obs[m[2]] ELSE m[3]

\* the empty record has been formatted: every default is in use
C7_Witness ==
    /\ f_pc = "formatted"
    /\ DOMAIN f_obs = {}
    /\ f_out.species = PyStr("Unknown")
    /\ f_out.count = PyStr("X")

(***************************************************************************)
(* C8: the rendered count text is "present" when howMany was absent, and   *)
(* otherwise the literal text of the howMany value.                        *)
(***************************************************************************)
\* the literal text of the howMany values of RawChoices
LiteralText(v) ==
    CASE v = PyInt(3) -> "3"
      [] v = PyInt(12) -> "12"
      [] v = PyStr("X") -> "X"

\* C8 as stated
C8_Original ==
    f_pc = "rendered" =>
        CountText(f_html) = IF Present("howMany") THEN LiteralText(f_obs["howMany"])
                            ELSE "present"

\* C8 amended: "present" when howMany is absent or is the string "X",
\* otherwise the literal text of the howMany value
C8_CountText ==
    f_pc = "rendered" =>
        CountText(f_html) =
            IF Present("howMany") /\ f_obs["howMany"] /= PyStr("X")
            THEN LiteralText(f_obs["howMany"])
            ELSE "present"

\* a page with a two-digit count and a page with an absent count are rendered
C8_Witness ==
    /\ f_pc = "rendered"
    /\ \/ Present("howMany") /\ f_obs["howMany"] = PyInt(12) /\ CountText(f_html) = "12"
       \/ ~Present("howMany") /\ CountText(f_html) = "present"

====
